---- MODULE Spec2Model ----
(***************************************************************************)
(* The record store of sqlite_backend.py (one table, analysis_data, in an  *)
(* SQLite file) and the Streamlit script stock_app.py that saves to it and *)
(* retrieves from it.  Every function of sqlite_backend.py is an operator  *)
(* from the database before the call to the database after it, the value   *)
(* returned and the exception, if any, that leaves the function.           *)
(***************************************************************************)
EXTENDS Integers, FiniteSets, Sequences, TLC

VARIABLES
    sqlite_master,      \* the tables of the database file: records [name, sql]
    rows,               \* the rows of analysis_data: [id, topic, parameters, content]
    sqlite_sequence,    \* AUTOINCREMENT's record of the largest rowid ever used
    ret,                \* what the last backend call returned
    raised,             \* the exception that left the last call ("none" if none)
    open_conns,         \* connections opened by the last call and not closed
    last,               \* the last backend call: [op, topic, parameters, content, fault,
                        \* ok] and, as history, how many rows had its key before it
                        \* (matched) and the value of `pure` before it
    everAssigned,       \* history: every id a committed save has assigned
    initCalls,          \* history: successful init_db calls in a row (2 = two or more)
    rowsBefore,         \* history: the rows before the first init_db of that run
    saves,              \* history: the saves since the store was last empty
    pure,               \* history: only saves changed the store since it was empty
    stock_symbol,       \* widget: st.text_input("Enter Stock Symbol ...")
    initial_capital,    \* widget: st.number_input("Enter Initial Capital ...")
    risk_tolerance,     \* widget: st.selectbox("Select Risk Tolerance", ...)
    trading_strategy,   \* widget: st.text_input("Enter Trading Strategy ...")
    analysis_content,   \* st.session_state.analysis_content
    advice_file,        \* the file investment-advice.md (NoFile when absent)
    shown               \* the message the last script run displayed for its button

dbVars    == <<sqlite_master, rows, sqlite_sequence>>
callVars  == <<ret, raised, open_conns, last>>
histVars  == <<everAssigned, initCalls, rowsBefore, saves, pure>>
appVars   == <<stock_symbol, initial_capital, risk_tolerance, trading_strategy,
               analysis_content, advice_file, shown>>
vars      == <<dbVars, callVars, histVars, appVars>>

---------------------------------------------------------------------------
(* Bounds *)

\* The largest rowid the model lets AUTOINCREMENT hand out.
MaxId == 2

---------------------------------------------------------------------------
(* Values *)

\* Python's None, distinct from every str of the model.
None == "<None>"

TableName == "analysis_data"

\* The column definitions of CREATE TABLE IF NOT EXISTS analysis_data (...).
Schema ==
    << "id INTEGER PRIMARY KEY AUTOINCREMENT",
       "topic TEXT NOT NULL",
       "parameters TEXT NOT NULL",
       "content TEXT NOT NULL" >>

NotFoundMsg       == "No content found for the given topic and parameters."
RetrieveErrorMsg  == "An error occurred while retrieving the content."
DeletedMsg        == "Content deleted successfully."
DeleteNotFoundMsg == "No content found to delete for the given topic and parameters."
DeleteErrorMsg    == "An error occurred while deleting the content."
UpdatedMsg        == "Content updated successfully."
UpdateNotFoundMsg == "No matching content found to update."
UpdateErrorMsg    == "An error occurred while updating the content."

\* Returned Python values, tagged with their type.
PyNone     == [type |-> "NoneType", v |-> None]
PyBool(b)  == [type |-> "bool", v |-> b]
PyStr(s)   == [type |-> "str", v |-> s]
PyList(l)  == [type |-> "list", v |-> l]
PyTuple(t) == [type |-> "tuple", v |-> t]

\* Python's truth test, as `if x:` applies it.
Truthy(x) ==
    CASE x.type = "NoneType" -> FALSE
      [] x.type = "bool"     -> x.v
      [] x.type = "str"      -> x.v # ""
      [] OTHER               -> Len(x.v) > 0

\* The steps of a call at which the SQLite engine can raise sqlite3.Error.
Faults      == {"none", "connect", "execute", "commit"}
ReadFaults  == {"none", "connect", "execute"}

\* Arguments of the direct calls to the backend: keys <<topic, parameters>>, two
\* of one topic and two of one parameters string, and contents, one of them
\* the text of the not-found message.
Keys       == { <<"RELIANCE", "₹100000-Moderate-Value">>,
                <<"RELIANCE", "x">>,
                <<"UNKNOWN", "x">> }
Contents   == {"text A", NotFoundMsg}

---------------------------------------------------------------------------
(* The SQL statements *)

Max(a, b) == IF a >= b THEN a ELSE b

TableExists(db) == \E t \in db.master : t.name = TableName

\* WHERE topic = ? AND parameters = ?
Matches(r, topic, parameters) == r.topic = topic /\ r.parameters = parameters

MaxRowid(rs) == IF rs = {} THEN 0 ELSE CHOOSE i \in {r.id : r \in rs} :
                                        \A r \in rs : r.id <= i

\* The table has no index, so every SELECT is a scan of the table's b-tree,
\* which visits the rows in ascending rowid.
RECURSIVE TableScan(_)
TableScan(rs) ==
    IF rs = {} THEN << >>
    ELSE LET r == CHOOSE x \in rs : \A y \in rs : x.id <= y.id
         IN  <<r>> \o TableScan(rs \ {r})

\* SELECT content FROM analysis_data WHERE topic = ? AND parameters = ?
SelectContentWhere(rs, topic, parameters) ==
    LET m == SelectSeq(TableScan(rs), LAMBDA r : Matches(r, topic, parameters))
    IN  [i \in 1..Len(m) |-> <<m[i].content>>]

fetchone_last(result) ==
    IF result = << >> THEN PyNone ELSE PyTuple(result[Len(result)])

\* cursor.fetchone(): the first row of the result, None when there is none.
fetchone(result) == IF result = << >> THEN PyNone ELSE PyTuple(Head(result))

\* cursor.fetchall() of SELECT *: every row as a tuple, in scan order.
fetchall(rs) ==
    LET s == TableScan(rs)
    IN  [i \in 1..Len(s) |-> <<s[i].id, s[i].topic, s[i].parameters, s[i].content>>]

NextRowid_max_plus_one(db) == MaxRowid(db.rows) + 1

\* id INTEGER PRIMARY KEY AUTOINCREMENT: one more than the largest rowid that
\* has ever been in the table, which sqlite_sequence remembers.
NextRowid(db) == Max(db.seq, MaxRowid(db.rows)) + 1

DeleteWhere_first(rs, topic, parameters) ==
    LET m == SelectSeq(TableScan(rs), LAMBDA r : Matches(r, topic, parameters))
    IN  IF m = << >> THEN rs ELSE rs \ {Head(m)}

\* DELETE FROM analysis_data WHERE topic = ? AND parameters = ?
DeleteWhere(rs, topic, parameters) ==
    {r \in rs : ~Matches(r, topic, parameters)}

UpdateWhere_first(rs, topic, parameters, new_content) ==
    LET m == SelectSeq(TableScan(rs), LAMBDA r : Matches(r, topic, parameters))
    IN  {IF m # << >> /\ r = Head(m) THEN [r EXCEPT !.content = new_content]
         ELSE r : r \in rs}

UpdateWhere_topic(rs, topic, parameters, new_content) ==
    {IF r.topic = topic THEN [r EXCEPT !.content = new_content] ELSE r : r \in rs}

\* UPDATE analysis_data SET content = ? WHERE topic = ? AND parameters = ?
UpdateWhere(rs, topic, parameters, new_content) ==
    {IF Matches(r, topic, parameters) THEN [r EXCEPT !.content = new_content]
     ELSE r : r \in rs}

InsertRow_upsert(db, topic, parameters, content) ==
    IF \E r \in db.rows : Matches(r, topic, parameters)
    THEN [db EXCEPT !.rows = UpdateWhere(@, topic, parameters, content)]
    ELSE [db EXCEPT !.rows = @ \cup {[id |-> NextRowid(db), topic |-> topic,
                                     parameters |-> parameters,
                                     content |-> content]},
                    !.seq = NextRowid(db)]

\* INSERT INTO analysis_data (topic, parameters, content) VALUES (?, ?, ?)
InsertRow(db, topic, parameters, content) ==
    LET id == NextRowid(db)
    IN  [db EXCEPT !.rows = @ \cup {[id |-> id, topic |-> topic,
                                     parameters |-> parameters,
                                     content |-> content]},
                   !.seq = id]

---------------------------------------------------------------------------
(* sqlite_backend.py.  Each function is                                    *)
(*     try: conn = sqlite3.connect(DB_PATH); ...statement...               *)
(*     except sqlite3.Error: print(...); [return <error value>]            *)
(*     finally: conn.close()                                               *)
(* and maps the database `db` = [master, rows, seq] and the step at which  *)
(* the engine fails to [db, ret, raised, ok, open]: the database after the *)
(* call, the value returned, the exception leaving the call, whether the   *)
(* try block ran to its end, and the connections left open.                *)

\* finally: conn.close().  When sqlite3.connect itself raised, `conn` was never
\* bound, so the finally clause raises UnboundLocalError, which replaces the
\* except clause's return.  Otherwise the connection is closed, which rolls an
\* uncommitted transaction back, and the pending return takes place.
Finally(db, connected, value, ok) ==
    IF connected
    THEN [db |-> db, ret |-> value, raised |-> "none", ok |-> ok, open |-> 0]
    ELSE [db |-> db, ret |-> PyNone, raised |-> "UnboundLocalError",
          ok |-> FALSE, open |-> 0]

init_db_drop(db, fault) ==
    Finally([master |-> {[name |-> TableName, sql |-> Schema]}, rows |-> {},
             seq |-> 0], fault # "connect", PyNone, fault = "none")

init_db(db, fault) ==
    CASE fault = "connect" -> Finally(db, FALSE, PyNone, FALSE)
      [] fault = "execute" -> Finally(db, TRUE, PyNone, FALSE)
      [] OTHER ->
         \* CREATE TABLE IF NOT EXISTS: a DDL statement opens no transaction,
         \* so the table is there once execute() returns, commit or not.
         LET created == IF TableExists(db) THEN db
                        ELSE [db EXCEPT !.master =
                                 @ \cup {[name |-> TableName, sql |-> Schema]}]
         IN  Finally(created, TRUE, PyNone, fault = "none")

check_table_exists(db, fault) ==
    CASE fault = "connect" -> Finally(db, FALSE, PyBool(FALSE), FALSE)
      [] fault = "execute" -> Finally(db, TRUE, PyBool(FALSE), FALSE)
      [] OTHER ->
         \* SELECT name FROM sqlite_master WHERE type='table' AND name=...
         LET found  == {t \in db.master : t.name = TableName}
             result == IF found = {} THEN PyNone ELSE PyTuple(<<TableName>>)
         IN  Finally(db, TRUE, PyBool(Truthy(result)), TRUE)

save_to_sqlite(db, topic, parameters, content, fault) ==
    CASE fault = "connect" -> Finally(db, FALSE, PyNone, FALSE)
      [] \/ fault = "execute"
         \/ ~TableExists(db)                     \* no such table
         \/ None \in {topic, parameters, content} \* NOT NULL constraint failed
         -> Finally(db, TRUE, PyNone, FALSE)
      [] fault = "commit" -> Finally(db, TRUE, PyNone, FALSE)
      [] OTHER -> Finally(InsertRow(db, topic, parameters, content), TRUE,
                          PyNone, TRUE)

retrieve_from_sqlite(db, topic, parameters, fault) ==
    CASE fault = "connect" -> Finally(db, FALSE, PyStr(RetrieveErrorMsg), FALSE)
      [] fault = "execute" \/ ~TableExists(db)
         -> Finally(db, TRUE, PyStr(RetrieveErrorMsg), FALSE)
      [] OTHER ->
         LET result == fetchone(SelectContentWhere(db.rows, topic, parameters))
         IN  IF Truthy(result)
             THEN Finally(db, TRUE, PyStr(result.v[1]), TRUE)
             ELSE Finally(db, TRUE, PyStr(NotFoundMsg), TRUE)

delete_from_sqlite(db, topic, parameters, fault) ==
    CASE fault = "connect" -> Finally(db, FALSE, PyStr(DeleteErrorMsg), FALSE)
      [] fault = "execute" \/ ~TableExists(db)
         -> Finally(db, TRUE, PyStr(DeleteErrorMsg), FALSE)
      [] fault = "commit" -> Finally(db, TRUE, PyStr(DeleteErrorMsg), FALSE)
      [] OTHER ->
         LET after    == DeleteWhere(db.rows, topic, parameters)
             rowcount == Cardinality(db.rows) - Cardinality(after)
         IN  Finally([db EXCEPT !.rows = after], TRUE,
                     IF rowcount > 0 THEN PyStr(DeletedMsg)
                     ELSE PyStr(DeleteNotFoundMsg), TRUE)

retrieve_all_data(db, fault) ==
    CASE fault = "connect" -> Finally(db, FALSE, PyList(<< >>), FALSE)
      [] fault = "execute" \/ ~TableExists(db)
         -> Finally(db, TRUE, PyList(<< >>), FALSE)
      [] OTHER -> Finally(db, TRUE, PyList(fetchall(db.rows)), TRUE)

update_sqlite(db, topic, parameters, new_content, fault) ==
    LET matched == {r \in db.rows : Matches(r, topic, parameters)}
    IN  CASE fault = "connect" -> Finally(db, FALSE, PyStr(UpdateErrorMsg), FALSE)
          [] \/ fault = "execute"
             \/ ~TableExists(db)
             \/ (new_content = None /\ matched # {})  \* NOT NULL constraint failed
             -> Finally(db, TRUE, PyStr(UpdateErrorMsg), FALSE)
          [] fault = "commit" -> Finally(db, TRUE, PyStr(UpdateErrorMsg), FALSE)
          [] OTHER ->
             LET after    == UpdateWhere(db.rows, topic, parameters, new_content)
                 rowcount == Cardinality(matched)
             IN  Finally([db EXCEPT !.rows = after], TRUE,
                         IF rowcount > 0 THEN PyStr(UpdatedMsg)
                         ELSE PyStr(UpdateNotFoundMsg), TRUE)

---------------------------------------------------------------------------
(* A call of a backend function on the current state *)

World ==
    [db |-> [master |-> sqlite_master, rows |-> rows, seq |-> sqlite_sequence],
     ret |-> ret, raised |-> raised, open |-> open_conns, last |-> last,
     everAssigned |-> everAssigned, initCalls |-> initCalls,
     rowsBefore |-> rowsBefore, saves |-> saves, pure |-> pure]

\* The world after calling `op` with the arguments given (None for the
\* arguments the function does not take), the engine failing at step `fault`.
Invoke(w, op, topic, parameters, content, fault) ==
    LET res ==
            CASE op = "init_db" -> init_db(w.db, fault)
              [] op = "check_table_exists" -> check_table_exists(w.db, fault)
              [] op = "save" ->
                    save_to_sqlite(w.db, topic, parameters, content, fault)
              [] op = "retrieve" ->
                    retrieve_from_sqlite(w.db, topic, parameters, fault)
              [] op = "delete" ->
                    delete_from_sqlite(w.db, topic, parameters, fault)
              [] op = "retrieve_all" -> retrieve_all_data(w.db, fault)
              [] op = "update" ->
                    update_sqlite(w.db, topic, parameters, content, fault)
        inits == op = "init_db" /\ res.ok
        empty == res.db.rows = {}
        wrote == res.db.rows # w.db.rows
    IN  [db     |-> res.db,
         ret    |-> res.ret,
         raised |-> res.raised,
         open   |-> res.open,
         last   |-> [op |-> op, topic |-> topic, parameters |-> parameters,
                     content |-> content, fault |-> fault, ok |-> res.ok,
                     matched |-> Cardinality({r \in w.db.rows :
                                     Matches(r, topic, parameters)}),
                     pure |-> w.pure],
         everAssigned |-> w.everAssigned \cup {r.id : r \in res.db.rows},
         initCalls    |-> IF inits THEN (IF w.initCalls = 0 THEN 1 ELSE 2) ELSE 0,
         rowsBefore   |-> IF ~inits THEN {}
                          ELSE IF w.initCalls = 0 THEN w.db.rows
                          ELSE w.rowsBefore,
         saves  |-> IF op = "save" /\ res.ok
                    THEN (IF w.pure
                          THEN Append(w.saves, <<topic, parameters, content>>)
                          ELSE << >>)
                    ELSE IF empty \/ wrote THEN << >>
                    ELSE w.saves,
         pure   |-> IF op = "save" /\ res.ok THEN w.pure
                    ELSE IF empty THEN TRUE
                    ELSE IF wrote THEN FALSE
                    ELSE w.pure]

SetWorld(w) ==
    /\ sqlite_master' = w.db.master
    /\ rows' = w.db.rows
    /\ sqlite_sequence' = w.db.seq
    /\ ret' = w.ret
    /\ raised' = w.raised
    /\ open_conns' = w.open
    /\ last' = w.last
    /\ everAssigned' = w.everAssigned
    /\ initCalls' = w.initCalls
    /\ rowsBefore' = w.rowsBefore
    /\ saves' = w.saves
    /\ pure' = w.pure

\* AUTOINCREMENT has ids left to hand out (the engine's own limit is 2^63 - 1).
IdsLeft(db) == NextRowid(db) <= MaxId

---------------------------------------------------------------------------
(* The state when sqlite_backend has been imported: DB_PATH names a file   *)
(* nothing has been written to, and the widgets hold their defaults.       *)

NoFile == "<no file>"

Init ==
    /\ sqlite_master = {}
    /\ rows = {}
    /\ sqlite_sequence = 0
    /\ ret = PyNone
    /\ raised = "none"
    /\ open_conns = 0
    /\ last = [op |-> "import", topic |-> None, parameters |-> None,
               content |-> None, fault |-> "none", ok |-> TRUE,
               matched |-> 0, pure |-> TRUE]
    /\ everAssigned = {}
    /\ initCalls = 0
    /\ rowsBefore = {}
    /\ saves = << >>
    /\ pure = TRUE
    /\ stock_symbol = ""
    /\ initial_capital = 0
    /\ risk_tolerance = "Low"
    /\ trading_strategy = ""
    /\ analysis_content = ""
    /\ advice_file = NoFile
    /\ shown = "none"

---------------------------------------------------------------------------
(* The backend called directly *)

InitDb ==
    \E f \in Faults :
        /\ \E w \in {Invoke(World, "init_db", None, None, None, f)} : SetWorld(w)
        /\ UNCHANGED appVars

CheckTableExists ==
    \E f \in ReadFaults :
        /\ \E w \in {Invoke(World, "check_table_exists", None, None, None, f)} : SetWorld(w)
        /\ UNCHANGED appVars

SaveToSqlite ==
    \E k \in Keys, c \in Contents \cup {None}, f \in Faults :
        /\ IdsLeft(World.db)
        /\ \E w \in {Invoke(World, "save", k[1], k[2], c, f)} : SetWorld(w)
        /\ UNCHANGED appVars

RetrieveFromSqlite ==
    \E k \in Keys, f \in ReadFaults :
        /\ \E w \in {Invoke(World, "retrieve", k[1], k[2], None, f)} : SetWorld(w)
        /\ UNCHANGED appVars

DeleteFromSqlite ==
    \E k \in Keys, f \in Faults :
        /\ \E w \in {Invoke(World, "delete", k[1], k[2], None, f)} : SetWorld(w)
        /\ UNCHANGED appVars

RetrieveAllData ==
    \E f \in ReadFaults :
        /\ \E w \in {Invoke(World, "retrieve_all", None, None, None, f)} : SetWorld(w)
        /\ UNCHANGED appVars

UpdateSqlite ==
    \E k \in Keys, c \in Contents \cup {None}, f \in Faults :
        /\ \E w \in {Invoke(World, "update", k[1], k[2], c, f)} : SetWorld(w)
        /\ UNCHANGED appVars

Next ==
    \/ InitDb
    \/ CheckTableExists
    \/ SaveToSqlite
    \/ RetrieveFromSqlite
    \/ DeleteFromSqlite
    \/ RetrieveAllData
    \/ UpdateSqlite

Spec == Init /\ [][Next]_vars

---------------------------------------------------------------------------
(* stock_app.py.  Streamlit runs the whole script again whenever a widget  *)
(* changes or a button is pressed; a button is True in the run its press   *)
(* started and in no other, so a run sees at most one button pressed.      *)

\* Values of the widgets: each widget's default (the empty text, min_value 0,
\* the first option) and one other value.
Symbols       == {"", "RELIANCE"}
Capitals      == {0, 100000}
RiskOptions   == {"Low", "Moderate"}
Strategies    == {"", "Value"}
\* What crew.kickoff can leave in investment-advice.md.
AdviceTexts   == {"text A"}

\* The engine faults of one script run: none, or one fault at one step of one
\* of the backend calls the run makes.
RunFaults ==
    {[call |-> "none", step |-> "none"]}
    \cup [call : {"init_db"}, step : Faults \ {"none"}]
    \cup [call : {"check_table_exists"}, step : ReadFaults \ {"none"}]
    \cup [call : {"button"}, step : Faults \ {"none"}]

FaultAt(rf, call) == IF rf.call = call THEN rf.step ELSE "none"

\* f"₹{initial_capital}-{risk_tolerance}-{trading_strategy}"
FormatParameters(capital, risk, strategy) ==
    "₹" \o ToString(capital) \o "-" \o risk \o "-" \o strategy

\* `if stock_symbol and initial_capital > 0`
InputsGiven == Truthy(PyStr(stock_symbol)) /\ initial_capital > 0

\* stock_app.py lines 16-23: init_db(), then check_table_exists().  `stopped` when an
\* exception left one of them and ended the run.
StartUp(w, rf) ==
    CHOOSE start \in
        { IF w1.raised # "none" THEN [w |-> w1, stopped |-> TRUE]
          ELSE CHOOSE s \in
                 { [w |-> w2, stopped |-> w2.raised # "none"] :
                   w2 \in {Invoke(w1, "check_table_exists", None, None, None,
                                  FaultAt(rf, "check_table_exists"))} } : TRUE :
          w1 \in {Invoke(w, "init_db", None, None, None,
                         FaultAt(rf, "init_db"))} } : TRUE

\* stock_app.py lines 96-110: with a symbol entered, the run fetches its data before it
\* reaches the buttons, and an exception of the data provider ends it.
ReachesButtons(start, fetched) ==
    ~start.stopped /\ (Truthy(PyStr(stock_symbol)) => fetched)

\* A run that no button started: Streamlit starts one when a widget changes,
\* and the run sees the widgets' new values.
WidgetRun(symbol, capital, risk, strategy) ==
    \E rf \in RunFaults :
        /\ rf.call # "button"
        /\ stock_symbol' = symbol
        /\ initial_capital' = capital
        /\ risk_tolerance' = risk
        /\ trading_strategy' = strategy
        /\ \E start \in {StartUp(World, rf)} : SetWorld(start.w)
        /\ shown' = "none"
        /\ UNCHANGED <<analysis_content, advice_file>>

EditStockSymbol ==
    \E v \in Symbols \ {stock_symbol} :
        WidgetRun(v, initial_capital, risk_tolerance, trading_strategy)

EditInitialCapital ==
    \E v \in Capitals \ {initial_capital} :
        WidgetRun(stock_symbol, v, risk_tolerance, trading_strategy)

SelectRiskTolerance ==
    \E v \in RiskOptions \ {risk_tolerance} :
        WidgetRun(stock_symbol, initial_capital, v, trading_strategy)

EditTradingStrategy ==
    \E v \in Strategies \ {trading_strategy} :
        WidgetRun(stock_symbol, initial_capital, risk_tolerance, v)

\* A run that ends in an exception before or inside its button's handler.
RunStops(w) ==
    /\ SetWorld(w)
    /\ shown' = "exception"
    /\ UNCHANGED <<stock_symbol, initial_capital, risk_tolerance,
                   trading_strategy, analysis_content, advice_file>>

\* stock_app.py lines 154-182: st.button("Generate Analysis & Advice").
PressGenerate ==
    \E rf \in RunFaults, fetched \in BOOLEAN,
       kickoff \in AdviceTexts \cup {"<raises>", "<writes nothing>"} :
        \E start \in {StartUp(World, rf)} :
            /\ rf.call # "button"
            /\ IF ~ReachesButtons(start, fetched) \/ (InputsGiven /\ kickoff = "<raises>")
               THEN RunStops(start.w)
               ELSE /\ SetWorld(start.w)
                    /\ UNCHANGED <<stock_symbol, initial_capital, risk_tolerance,
                                   trading_strategy>>
                    /\ IF InputsGiven
                       THEN /\ advice_file' = IF kickoff = "<writes nothing>"
                                              THEN advice_file ELSE kickoff
                            /\ IF advice_file' # NoFile   \* os.path.exists(...)
                               THEN /\ analysis_content' = advice_file'
                                    /\ shown' = "markdown"
                               ELSE /\ shown' = "error: failed to generate"
                                    /\ UNCHANGED analysis_content
                       ELSE /\ shown' = "error: enter all required inputs"
                            /\ UNCHANGED <<analysis_content, advice_file>>

\* stock_app.py lines 185-191: st.button("Save").
PressSave ==
    \E rf \in RunFaults, fetched \in BOOLEAN :
        \E start \in {StartUp(World, rf)} :
        \E parameters \in {FormatParameters(initial_capital, risk_tolerance,
                                            trading_strategy)} :
        \E saved \in {Invoke(start.w, "save", stock_symbol, parameters,
                             analysis_content, FaultAt(rf, "button"))} :
            IF ~ReachesButtons(start, fetched)
            THEN rf.call # "button" /\ RunStops(start.w)
            ELSE IF Truthy(PyStr(analysis_content))
            THEN /\ IdsLeft(start.w.db)
                 /\ IF saved.raised # "none"
                    THEN RunStops(saved)
                    ELSE /\ SetWorld(saved)
                         /\ shown' = "success: saved"
                         /\ UNCHANGED <<stock_symbol, initial_capital,
                                        risk_tolerance, trading_strategy,
                                        analysis_content, advice_file>>
            ELSE /\ rf.call # "button"
                 /\ SetWorld(start.w)
                 /\ shown' = "error: generate first"
                 /\ UNCHANGED <<stock_symbol, initial_capital, risk_tolerance,
                                trading_strategy, analysis_content, advice_file>>

\* stock_app.py lines 194-203: st.button("Retrieve Previous Analysis").
PressRetrieve ==
    \E rf \in RunFaults, fetched \in BOOLEAN :
        \E start \in {StartUp(World, rf)} :
        \E parameters \in {FormatParameters(initial_capital, risk_tolerance,
                                            trading_strategy)} :
        \E found \in {Invoke(start.w, "retrieve", stock_symbol, parameters, None,
                             FaultAt(rf, "button"))} :
            IF ~ReachesButtons(start, fetched)
            THEN rf.call # "button" /\ RunStops(start.w)
            ELSE IF InputsGiven
            THEN /\ ~(rf.call = "button" /\ rf.step = "commit")
                 /\ IF found.raised # "none"
                    THEN RunStops(found)
                    ELSE /\ SetWorld(found)
                         /\ shown' = IF Truthy(found.ret) THEN "markdown"
                                     ELSE "error: no previous analysis"
                         /\ UNCHANGED <<stock_symbol, initial_capital,
                                        risk_tolerance, trading_strategy,
                                        analysis_content, advice_file>>
            ELSE /\ rf.call # "button"
                 /\ SetWorld(start.w)
                 /\ shown' = "error: enter the required inputs"
                 /\ UNCHANGED <<stock_symbol, initial_capital, risk_tolerance,
                                trading_strategy, analysis_content, advice_file>>

AppNext ==
    \/ EditStockSymbol
    \/ EditInitialCapital
    \/ SelectRiskTolerance
    \/ EditTradingStrategy
    \/ PressGenerate
    \/ PressSave
    \/ PressRetrieve

AppSpec == Init /\ [][AppNext]_vars

---------------------------------------------------------------------------
(* Properties *)

Db == [master |-> sqlite_master, rows |-> rows, seq |-> sqlite_sequence]
DbNext == [master |-> sqlite_master', rows |-> rows', seq |-> sqlite_sequence']

\* The rows that have the key of the last call.
LastKeyRows(rs) == {r \in rs : Matches(r, last.topic, last.parameters)}

\* C1: after a save that succeeded, retrieve with the same (topic, parameters)
\* returns the saved content when no other row has that key, and otherwise the
\* current content of the matching row with the lowest id.
C1_SaveThenRetrieve ==
    (last.op = "save" /\ last.ok) =>
        LET m   == LastKeyRows(rows)
            got == retrieve_from_sqlite(Db, last.topic, last.parameters, "none")
        IN  /\ got.raised = "none"
            /\ got.ret.type = "str"
            /\ Cardinality(m) = 1 => got.ret.v = last.content
            /\ \E r \in m : /\ \A q \in m : r.id <= q.id
                            /\ got.ret.v = r.content

\* A save of a key that an older row with another content already has.
C1_Witness ==
    /\ last.op = "save" /\ last.ok
    /\ Cardinality(LastKeyRows(rows)) = 2
    /\ \E r \in LastKeyRows(rows) : r.content # last.content

\* C2: an update that matches no row returns the not-found message and changes
\* no row; an update that matches rows sets the content of every one of them,
\* returns the updated message, and a retrieve of the key then returns the new
\* content.
C2_UpdateEveryMatch ==
    [][ (last'.op = "update" /\ last'.ok) =>
          LET m == {r \in rows : Matches(r, last'.topic, last'.parameters)}
          IN  /\ ret'.type = "str"
              /\ m = {} => ret'.v = UpdateNotFoundMsg /\ rows' = rows
              /\ m # {} =>
                   /\ ret'.v = UpdatedMsg
                   /\ \A r \in m : [r EXCEPT !.content = last'.content] \in rows'
                   /\ Cardinality(rows') = Cardinality(rows)
                   /\ retrieve_from_sqlite(DbNext, last'.topic, last'.parameters,
                                           "none").ret = PyStr(last'.content)
      ]_vars

\* An update that rewrote two rows of one key.
C2_Witness ==
    /\ last.op = "update" /\ last.ok /\ last.matched = 2
    /\ ret = PyStr(UpdatedMsg)

\* C3: a delete removes every row of its key and returns the deleted message
\* when there was one; the same delete again returns the not-found message,
\* and a retrieve of the key returns the not-found value.
C3_DeleteEveryMatch ==
    [][ (last'.op = "delete" /\ last'.ok) =>
          LET m == {r \in rows : Matches(r, last'.topic, last'.parameters)}
          IN  /\ m # {} => ret' = PyStr(DeletedMsg)
              /\ \A r \in rows' : ~Matches(r, last'.topic, last'.parameters)
              /\ delete_from_sqlite(DbNext, last'.topic, last'.parameters,
                                    "none").ret = PyStr(DeleteNotFoundMsg)
              /\ retrieve_from_sqlite(DbNext, last'.topic, last'.parameters,
                                      "none").ret = PyStr(NotFoundMsg)
      ]_vars

\* A delete that removed two rows of one key.
C3_Witness ==
    /\ last.op = "delete" /\ last.ok /\ last.matched = 2
    /\ ret = PyStr(DeletedMsg)

\* What retrieve_all_data returns in the database db.
Listing(db) == retrieve_all_data(db, "none").ret.v

\* After saves alone on an empty store, the listing is those saves, one record
\* each, in the order saved, with ids that increase.
ListingIsTheSaves(db, saved) ==
    LET l == Listing(db)
    IN  /\ Len(l) = Len(saved)
        /\ \A i \in 1..Len(l) : <<l[i][2], l[i][3], l[i][4]>> = saved[i]
        /\ \A i, j \in 1..Len(l) : i < j => l[i][1] < l[j][1]

\* C4 as claimed: after n saves on an empty store retrieve_all_data returns
\* exactly those n records, and deleting one of them afterwards makes the
\* listing exactly one record shorter.
C4_DeleteRemovesOne ==
    [][ /\ pure' => ListingIsTheSaves(DbNext, saves')
        /\ (pure /\ last'.op = "delete" /\ last'.ok /\ last'.matched >= 1) =>
              Len(Listing(DbNext)) = Len(Listing(Db)) - 1
      ]_vars

\* C4 as amended: after n saves on an empty store retrieve_all_data returns
\* exactly those n records, and a delete by the key of one of them makes the
\* listing shorter by the number of records that have that key: by exactly
\* one when no other record has it.
C4_DeleteRemovesTheKey ==
    [][ /\ pure' => ListingIsTheSaves(DbNext, saves')
        /\ (pure /\ last'.op = "delete" /\ last'.ok /\ last'.matched >= 1) =>
              /\ Len(Listing(DbNext)) = Len(Listing(Db)) - last'.matched
              /\ last'.matched = 1 =>
                    Len(Listing(DbNext)) = Len(Listing(Db)) - 1
      ]_vars

\* Two saves on the empty store, then a delete of one of the two records.
C4_Witness ==
    /\ last.op = "delete" /\ last.ok /\ last.pure /\ last.matched = 1
    /\ Cardinality(rows) = 1
    /\ Len(Listing(Db)) = 1

\* C5: retrieve returns the not-found value exactly when no stored row has
\* the key, and raises nothing.
C5_NotFoundIffNoMatch ==
    (last.op = "retrieve" /\ last.ok) =>
        /\ raised = "none"
        /\ ret = PyStr(NotFoundMsg) <=> LastKeyRows(rows) = {}

\* The value each function returns when the engine fails.
BenignValue(op) ==
    CASE op = "check_table_exists" -> PyBool(FALSE)
      [] op = "retrieve"           -> PyStr(RetrieveErrorMsg)
      [] op = "delete"             -> PyStr(DeleteErrorMsg)
      [] op = "update"             -> PyStr(UpdateErrorMsg)
      [] op = "retrieve_all"       -> PyList(<< >>)
      [] OTHER                     -> PyNone

\* C6: at whatever step the engine fails, opening the connection included,
\* the call returns its benign value, no exception leaves it and no
\* connection stays open.
C6_FaultsAreContained ==
    last.fault # "none" =>
        /\ raised = "none"
        /\ ret = BenignValue(last.op)
        /\ open_conns = 0

\* The analysis_data tables of the database file.
AnalysisTables == {t \in sqlite_master : t.name = TableName}

\* C7: after any number of init_db calls in a row there is exactly one
\* analysis_data table, with the schema of the CREATE statement, and the rows
\* are the rows there were before the first of the calls.
C7_InitDbIdempotent ==
    initCalls >= 1 =>
        /\ Cardinality(AnalysisTables) = 1
        /\ \A t \in AnalysisTables : t.sql = Schema
        /\ rows = rowsBefore

\* init_db called again on a store that holds rows.
C7_Witness == initCalls = 2 /\ rows # {} /\ last.op = "init_db"

\* C8: the stored rows have pairwise distinct ids, and a row that appears
\* has an id greater than every id assigned before, so no id comes back.
C8_IdsNeverReused ==
    [][ /\ \A r, q \in rows' : r.id = q.id => r = q
        /\ \A r \in rows' :
              r.id \notin {q.id : q \in rows} =>
                  \A i \in everAssigned : r.id > i
      ]_vars

\* A save after every earlier row, the one with the highest id included, was
\* deleted.
C8_Witness ==
    /\ last.op = "save" /\ last.ok
    /\ \E r \in rows : rows = {r} /\ r.id = sqlite_sequence /\ r.id >= 2
    /\ Cardinality(everAssigned) >= 2

\* C9: every stored record has a non-empty topic and a non-empty parameters
\* string.
C9_NoEmptyKey ==
    \A r \in rows : r.topic # "" /\ r.parameters # ""

\* C10: a stored record keeps its id, topic and parameters; its content
\* changes only by an update of its key, to the content given; it disappears
\* only by a delete of its key; every other call leaves it as it is.
C10_RecordsChangeOnlyByKey ==
    [][ \A r \in rows :
          \/ r \in rows'
          \/ /\ last'.op = "update" /\ last'.ok
             /\ Matches(r, last'.topic, last'.parameters)
             /\ \A q \in rows' :
                  q.id = r.id => q = [r EXCEPT !.content = last'.content]
             /\ \E q \in rows' : q.id = r.id
          \/ /\ last'.op = "delete" /\ last'.ok
             /\ Matches(r, last'.topic, last'.parameters)
             /\ \A q \in rows' : q.id # r.id
      ]_vars

\* An update of one key that left a record of the same topic and other
\* parameters with its old content.
C10_Witness ==
    /\ last.op = "update" /\ last.ok /\ last.matched = 1
    /\ \E r \in rows : /\ r.topic = last.topic
                       /\ r.parameters # last.parameters
                       /\ r.content # last.content

====
